---- MODULE Spec2Model ----
(***************************************************************************)
(* Predictive-maintenance pipeline: the Trainer script (model_train.py),   *)
(* the Predictor (predict.py) with its command-line boundary, and the two  *)
(* exporters (convert_to_onnx.py, convert_to_tensorflow.py).               *)
(*                                                                         *)
(* Numbers: the sensor readings are floats in the source; here they are    *)
(* integers (kelvin, rpm, Nm, minutes), probabilities are per-mille        *)
(* integers that sum to 1000, and Torque_Speed_Ratio is kept in 1/1000.    *)
(* Strings that the code edits character by character (the class names)    *)
(* are sequences of one-character strings.                                 *)
(***************************************************************************)
EXTENDS Integers, Sequences, FiniteSets, TLC

VARIABLES
    \* ---- the artifact paths on disk (written by the Trainer, read by the Predictor)
    files,
    \* ---- one Predictor process (predict.py)
    pc,            \* "start", "loaded", "crashed" (uncaught exception), "exited"
    mode,          \* "cli": run as __main__;  "import": imported by a caller
    argv,          \* the command line's argument, if any
    model,         \* module globals of predict.py
    type_enc,
    target_enc,
    stdout,        \* objects printed to standard output, in order
    stderr,        \* tracebacks the interpreter wrote to standard error
    exitcode,      \* process exit status; -1 while the process runs
    calls,         \* predict_failure calls made by an importing caller, in order
    last,          \* locals of the most recent predict_failure call
    now,           \* wall clock read by datetime.now()
    \* ---- one Trainer process at a time (model_train.py)
    tpc,           \* position in the script
    run,           \* number of the current (or last) training run
    script,        \* the script's encoders and fitted model
    features,      \* the script's `features` list
    trials,        \* the study's trials, each "COMPLETE" or "FAIL"
    best_value,    \* study.best_value
    \* ---- the Trainer's data frame (sections 2 and 3 of the script)
    df,            \* rows of the data frame
    df0,           \* the data frame as the balancing loop found it
    dpc,           \* position in the data section
    todo,          \* classes the balancing loop has still to visit
    \* ---- one exporter process (convert_to_onnx.py or convert_to_tensorflow.py)
    exporter,      \* which script runs: "onnx" or "booster"
    xpc,           \* position in the script
    xglobals,      \* the script's module globals
    xfiles,        \* the files the exporters write
    xlog,          \* what the script printed, in order
    xexit,         \* process exit status; -1 while the process runs
    \* ---- one LabelEncoder.fit_transform of the Trainer (section 3)
    fpc,           \* "start", "fitted"
    fit_y,         \* the column the encoder is fit over
    fit_classes,   \* the encoder's classes_
    fit_codes      \* the codes fit_transform returned, one per row

predVars  == <<pc, mode, argv, model, type_enc, target_enc, stdout, stderr,
               exitcode, calls, last, now>>
trainVars == <<tpc, run, script, features, trials, best_value>>
dataVars  == <<df, df0, dpc, todo>>
exportVars == <<exporter, xpc, xglobals, xfiles, xlog, xexit>>
fitVars   == <<fpc, fit_y, fit_classes, fit_codes>>
vars      == <<files, predVars, trainVars, dataVars, exportVars, fitVars>>

\* ------------------------------------------------------------------------
\* Bounds of the model
\* ------------------------------------------------------------------------
MaxCalls == 3      \* predict_failure calls one importing process makes
MaxRuns  == 2      \* training runs in one behaviour
MinFill  == 49     \* fewest and most ordinary rows of a generated data frame
MaxFill  == 51
MaxDeficit == 1    \* most rows a class with several rows is short of the minimum

\* ------------------------------------------------------------------------
\* Generic helpers
\* ------------------------------------------------------------------------
Range(s) == {s[i] : i \in 1..Len(s)}

None == [t |-> "null", n |-> 0, s |-> ""]
Num(x) == [t |-> "num", n |-> x, s |-> ""]
Str(x) == [t |-> "str", n |-> 0, s |-> x]

Ok(v)    == [raised |-> FALSE, err |-> "", v |-> v]
Raise(e) == [raised |-> TRUE, err |-> e, v |-> None]

\* x = e, then F(x): a local that is computed once and then used
Bind(e, F(_)) == CHOOSE r \in {F(x) : x \in {e}} : TRUE

\* ------------------------------------------------------------------------
\* Class names (Failure_Type values) as character sequences
\* ------------------------------------------------------------------------
No_Failure == <<"N","o","_","F","a","i","l","u","r","e">>
Tool_Wear_Failure ==
    <<"T","o","o","l","_","W","e","a","r","_","F","a","i","l","u","r","e">>
Power_Failure == <<"P","o","w","e","r","_","F","a","i","l","u","r","e">>
Overstrain_Failure ==
    <<"O","v","e","r","s","t","r","a","i","n","_","F","a","i","l","u","r","e">>
Heat_Dissipation_Failure ==
    <<"H","e","a","t","_","D","i","s","s","i","p","a","t","i","o","n","_",
      "F","a","i","l","u","r","e">>
Random_Failures == <<"R","a","n","d","o","m","_","F","a","i","l","u","r","e","s">>

\* ------------------------------------------------------------------------
\* A one-row pandas DataFrame built from a dict: columns in insertion order
\* ------------------------------------------------------------------------
Cols(d) == [i \in 1..Len(d) |-> d[i][1]]
HasCol(d, c) == \E i \in 1..Len(d) : d[i][1] = c
Get(d, c) == d[CHOOSE i \in 1..Len(d) : d[i][1] = c][2]
\* df[c] = v : overwrite the column in place, or append a new last column
SetCol(d, c, v) ==
    IF HasCol(d, c)
    THEN [i \in 1..Len(d) |-> IF d[i][1] = c THEN <<c, v>> ELSE d[i]]
    ELSE Append(d, <<c, v>>)

\* The operands of df[a] <op> df[b] on one row: KeyError for a missing
\* column, TypeError when an operand is not a number (None from a JSON null)
Operands(d, a, b) ==
    IF ~HasCol(d, a) THEN Raise("KeyError")
    ELSE IF ~HasCol(d, b) THEN Raise("KeyError")
    ELSE IF Get(d, a).t # "num" \/ Get(d, b).t # "num" THEN Raise("TypeError")
    ELSE Ok(<<Get(d, a).n, Get(d, b).n>>)

\* ------------------------------------------------------------------------
\* sklearn LabelEncoder, as predict.py uses it.  An encoder is its classes_
\* sequence; code k stands for classes_[k+1].
\* ------------------------------------------------------------------------
\* Mutants of LabelEncoder_transform: a default code for an unseen value, and
\* fit_transform (which refits the encoder on the value it is given).
LabelEncoder_transform_default(classes, y) ==
    IF \E i \in 1..Len(classes) : classes[i] = y
    THEN [raised |-> FALSE, err |-> "",
          code |-> (CHOOSE i \in 1..Len(classes) : classes[i] = y) - 1,
          classes |-> classes]
    ELSE [raised |-> FALSE, err |-> "", code |-> 0, classes |-> classes]

LabelEncoder_fit_transform(classes, y) ==
    [raised |-> FALSE, err |-> "", code |-> 0, classes |-> <<y>>]

\* type_enc.transform(df['Type']) on one value: its code, or ValueError for a
\* value that is not among classes_; classes_ is left as it was.
LabelEncoder_transform(classes, y) ==
    IF \E i \in 1..Len(classes) : classes[i] = y
    THEN [raised |-> FALSE, err |-> "",
          code |-> (CHOOSE i \in 1..Len(classes) : classes[i] = y) - 1,
          classes |-> classes]
    ELSE [raised |-> TRUE, err |-> "ValueError: y contains previously unseen labels",
          code |-> -1, classes |-> classes]

\* target_enc.inverse_transform([code])[0]: ValueError outside 0..n-1
LabelEncoder_inverse_transform(classes, code) ==
    IF code >= 0 /\ code < Len(classes)
    THEN [raised |-> FALSE, err |-> "", label |-> classes[code + 1]]
    ELSE [raised |-> TRUE, err |-> "ValueError: y contains previously unseen labels",
          label |-> <<>>]

\* ------------------------------------------------------------------------
\* The feature list (the same literal in model_train.py and predict.py)
\* ------------------------------------------------------------------------
\* predict.py: the `features` list inside engineer_features
predict_features ==
    <<"Type_enc", "Air_temperature_K", "Process_temperature_K",
      "Rotational_speed_rpm", "Torque_Nm", "Tool_wear_min",
      "Temp_Diff", "Stress_Index", "Torque_Speed_Ratio",
      "Torque_roll_mean5", "Torque_roll_std5", "Wear_diff">>

\* model_train.py: the `features` literal of section 5
train_features_literal ==
    <<"Type_enc", "Air_temperature_K", "Process_temperature_K",
      "Rotational_speed_rpm", "Torque_Nm", "Tool_wear_min",
      "Temp_Diff", "Stress_Index", "Torque_Speed_Ratio",
      "Torque_roll_mean5", "Torque_roll_std5", "Wear_diff">>

\* model_train.py: df.columns when section 5 starts (the generated columns,
\* then every column sections 3 and 4 add, in the order they are added)
train_columns ==
    <<"UDI", "Product_ID", "Type", "Air_temperature_K", "Process_temperature_K",
      "Rotational_speed_rpm", "Torque_Nm", "Tool_wear_min", "Failure_Type",
      "Type_enc", "Failure_Type_Enc", "Temp_Diff", "Stress_Index",
      "Torque_Speed_Ratio", "Torque_roll_mean5", "Torque_roll_std5", "Wear_diff">>

\* features = [f for f in features if f in df.columns]
train_features ==
    LET InColumns(f) == f \in Range(train_columns)
    IN  SelectSeq(train_features_literal, InColumns)

\* ------------------------------------------------------------------------
\* predict.py: engineer_features
\* ------------------------------------------------------------------------
\* Mutant of engineer_features_select: the frame is returned without the
\* column selection, so the columns keep the order of the input's keys.
engineer_features_noselect(d, feats) == d

\* df[features]: the listed columns, in the list's order; KeyError when one
\* is missing
engineer_features_select(d, feats) ==
    [i \in 1..Len(feats) |-> <<feats[i], Get(d, feats[i])>>]

engineer_features(enc, data) ==
    LET NoX(e, c) == [raised |-> TRUE, err |-> e, X |-> <<>>, classes |-> c]
    IN
    Bind(data, LAMBDA d0 :
    IF ~HasCol(d0, "Type") THEN NoX("KeyError", enc)
    ELSE
    Bind(LabelEncoder_transform(enc, Get(d0, "Type").s), LAMBDA t :
    IF Get(d0, "Type").t # "str" \/ t.raised
    THEN NoX(IF t.raised THEN t.err ELSE "TypeError", t.classes)
    ELSE
    Bind(SetCol(d0, "Type_enc", Num(t.code)), LAMBDA d1 :
    Bind(Operands(d1, "Process_temperature_K", "Air_temperature_K"), LAMBDA r2 :
    IF r2.raised THEN NoX(r2.err, t.classes)
    ELSE
    Bind(SetCol(d1, "Temp_Diff", Num(r2.v[1] - r2.v[2])), LAMBDA d2 :
    Bind(Operands(d2, "Torque_Nm", "Rotational_speed_rpm"), LAMBDA r3 :
    IF r3.raised THEN NoX(r3.err, t.classes)
    ELSE
    Bind(SetCol(d2, "Stress_Index", Num(r3.v[1] * r3.v[2])), LAMBDA d3 :
    Bind(Operands(d3, "Torque_Nm", "Rotational_speed_rpm"), LAMBDA r4 :
    IF r4.raised THEN NoX(r4.err, t.classes)
    ELSE
    \* Torque_Nm / (Rotational_speed_rpm + 1), in thousandths
    Bind(SetCol(d3, "Torque_Speed_Ratio",
                Num((1000 * r4.v[1]) \div (r4.v[2] + 1))), LAMBDA d4 :
    Bind(SetCol(d4, "Torque_roll_mean5", Num(0)), LAMBDA d5 :
    Bind(SetCol(d5, "Torque_roll_std5", Num(0)), LAMBDA d6 :
    Bind(SetCol(d6, "Wear_diff", Num(0)), LAMBDA d7 :
    IF \E i \in 1..Len(predict_features) : ~HasCol(d7, predict_features[i])
    THEN NoX("KeyError", t.classes)
    ELSE [raised |-> FALSE, err |-> "",
          X |-> engineer_features_select(d7, predict_features),
          classes |-> t.classes]))))))))))))

\* ------------------------------------------------------------------------
\* The boosted-tree model, reduced to one split: a feature position, a
\* threshold and one per-mille probability vector per side.
\* ------------------------------------------------------------------------
\* model.predict_proba(X): ValueError when X's column names are not the names
\* the model was trained on, or when a column is not numeric; otherwise the
\* 1 x num_class matrix of class probabilities.
predict_proba(m, X) ==
    IF Cols(X) # m.feature_names
    THEN [raised |-> TRUE, err |-> "ValueError: feature_names mismatch", p |-> <<>>]
    ELSE IF \E i \in 1..Len(X) : X[i][2].t # "num"
    THEN [raised |-> TRUE, err |-> "ValueError: invalid dtype", p |-> <<>>]
    ELSE [raised |-> FALSE, err |-> "",
          p |-> << IF X[m.feature][2].n < m.threshold THEN m.left ELSE m.right >>]

\* Mutant of np_max: the first entry, probabilities[0][0].
np_max_first(p) == p[1][1]

\* np.max over a matrix
np_max(p) ==
    CHOOSE x \in {p[i][j] : i \in 1..Len(p), j \in 1..Len(p[1])} :
        \A i \in 1..Len(p) : \A j \in 1..Len(p[i]) : p[i][j] <= x

\* np.argmax over one row: the first position of the maximum, from 0
np_argmax(row) ==
    (CHOOSE k \in 1..Len(row) :
        /\ \A j \in 1..Len(row) : row[j] <= row[k]
        /\ \A j \in 1..(k-1) : row[j] < row[k]) - 1

\* model.predict(X)[0] for a multi:softprob model: arg-max of the row
predict(m, X) == Bind(predict_proba(m, X).p[1], LAMBDA row : np_argmax(row))

\* s.replace(old, new) for one-character old and new
str_replace(s, old, new) ==
    [i \in 1..Len(s) |-> IF s[i] = old THEN new ELSE s[i]]

\* ------------------------------------------------------------------------
\* predict.py: predict_failure
\* ------------------------------------------------------------------------
NoResult == [failureType |-> <<>>, confidence |-> 0, timestamp |-> 0]

\* What one call does: whether it raised (always the wrapping Exception,
\* "Prediction error: <cause>"), the dict it returned, its locals, and
\* type_enc.classes_ as the call leaves it.
predict_failure(m, tenc, lenc, input_data, clock) ==
    LET Failed(e, X, p, k, c) ==
            [raised |-> TRUE, err |-> <<"Prediction error", e>>,
             result |-> NoResult, X |-> X, probabilities |-> p,
             prediction |-> k, classes |-> c]
    IN
    Bind(engineer_features(tenc, input_data), LAMBDA ef :
    IF ef.raised THEN Failed(ef.err, <<>>, <<>>, -1, ef.classes)
    ELSE
    Bind(predict_proba(m, ef.X), LAMBDA probabilities :
    IF probabilities.raised
    THEN Failed(probabilities.err, ef.X, <<>>, -1, ef.classes)
    ELSE
    Bind(predict(m, ef.X), LAMBDA prediction :
    Bind(np_max(probabilities.p), LAMBDA confidence :
    Bind(LabelEncoder_inverse_transform(lenc, prediction), LAMBDA decoded :
    IF decoded.raised
    THEN Failed(decoded.err, ef.X, probabilities.p, prediction, ef.classes)
    ELSE
    Bind(str_replace(decoded.label, "_", " "), LAMBDA failure_type :
        [raised |-> FALSE, err |-> <<>>,
         result |-> [failureType |-> failure_type,
                     confidence  |-> confidence,
                     timestamp   |-> clock],
         X |-> ef.X, probabilities |-> probabilities.p,
         prediction |-> prediction, classes |-> ef.classes]))))))

\* ------------------------------------------------------------------------
\* predict.py: the __main__ block
\* ------------------------------------------------------------------------
RequiredKeys ==
    <<"airTemperature", "processTemperature", "rotationalSpeed", "torque",
      "toolWear", "type">>

\* formatted_data: the request's fields under the training names, always in
\* this order
formatted_data(input_data) ==
    << <<"Air_temperature_K",     Get(input_data, "airTemperature")>>,
       <<"Process_temperature_K", Get(input_data, "processTemperature")>>,
       <<"Rotational_speed_rpm",  Get(input_data, "rotationalSpeed")>>,
       <<"Torque_Nm",             Get(input_data, "torque")>>,
       <<"Tool_wear_min",         Get(input_data, "toolWear")>>,
       <<"Type",                  Get(input_data, "type")>> >>

NoCall == [raised |-> TRUE, err |-> <<>>, result |-> NoResult, X |-> <<>>,
           probabilities |-> <<>>, prediction |-> -1, classes |-> <<>>]

\* Mutant of main_except: the handler prints the error object and falls off
\* the end of the script (no sys.exit(1)).
main_except_noexit(e, clock, call) ==
    [out  |-> << [error |-> e, timestamp |-> clock] >>,
     code |-> 0,
     call |-> call]

\* except Exception as e: print the error object and sys.exit(1)
main_except(e, clock, call) ==
    [out  |-> << [error |-> e, timestamp |-> clock] >>,
     code |-> 1,
     call |-> call]

\* The whole block: what it prints, the exit status, and the predict_failure
\* call it made (NoCall when it did not get that far).
main(a, m, tenc, lenc, clock) ==
    LET NotCalled == [NoCall EXCEPT !.classes = tenc]
    IN
    IF a.kind = "none"
    THEN main_except(<<"No input data provided">>, clock, NotCalled)
    ELSE IF a.kind = "garbage"
    THEN main_except(<<"JSONDecodeError">>, clock, NotCalled)
    ELSE IF a.kind = "scalar"
    THEN main_except(<<"TypeError">>, clock, NotCalled)
    ELSE IF \E i \in 1..Len(RequiredKeys) : ~HasCol(a.obj, RequiredKeys[i])
    THEN main_except(<<"KeyError">>, clock, NotCalled)
    ELSE
    Bind(formatted_data(a.obj), LAMBDA data :
    Bind(predict_failure(m, tenc, lenc, data, clock), LAMBDA call :
        IF call.raised
        THEN main_except(call.err, clock, call)
        ELSE [out |-> << call.result >>, code |-> 0, call |-> call]))

\* ------------------------------------------------------------------------
\* The artifact files
\* ------------------------------------------------------------------------
ModelPath     == "xgboost_multiclass_model.json"
TypeEncPath   == "type_encoder.pkl"
TargetEncPath == "target_encoder.pkl"
InfoPath      == "model_info.json"
Paths == {ModelPath, TypeEncPath, TargetEncPath, InfoPath}

Absent == [status |-> "absent", run |-> 0, content |-> <<>>]
File(r, c) == [status |-> "ok", run |-> r, content |-> c]

\* target_enc.classes_ after a fit: the distinct labels, sorted (np.unique)
Classes6 == <<Heat_Dissipation_Failure, No_Failure, Overstrain_Failure,
              Power_Failure, Random_Failures, Tool_Wear_Failure>>
\* ... of a data set in which no row is a Power_Failure
Classes5 == <<Heat_Dissipation_Failure, No_Failure, Overstrain_Failure,
              Random_Failures, Tool_Wear_Failure>>
\* type_enc.classes_ after the fit over Type
TypeClasses == <<"H", "L", "M">>

\* Models a final fit can produce, for 6 and for 5 classes
Stump(f, t, l, r) ==
    [feature_names |-> train_features, feature |-> f, threshold |-> t,
     left |-> l, right |-> r]
Models6 ==
    { Stump(6, 201, <<50, 800, 50, 25, 25, 50>>, <<20, 100, 30, 25, 25, 800>>),
      Stump(1, 1, <<400, 400, 50, 50, 50, 50>>, <<100, 100, 100, 500, 100, 100>>) }
Models5 ==
    { Stump(7, 16, <<100, 400, 50, 50, 400>>, <<25, 100, 25, 50, 800>>) }
Models == Models6 \cup Models5

\* model_info.json as section 11 of the Trainer writes it
model_info(feats, classes) ==
    [features    |-> feats,
     classes     |-> [i \in 1..Len(classes) |-> str_replace(classes[i], "_", " ")],
     num_classes |-> Len(classes)]

\* ------------------------------------------------------------------------
\* Inputs of the Predictor
\* ------------------------------------------------------------------------
\* A JSON object / a dict with its keys in the order `order` lists them
Obj(order, val) == [i \in 1..Len(order) |-> <<order[i], val[order[i]]>>]

Drop(order, k) == SelectSeq(order, LAMBDA x : x # k)
Reverse(q) == [i \in 1..Len(q) |-> q[Len(q) + 1 - i]]

\* Requests on the command line: numbers or null for the readings, a string
\* for type ("Z" is in no fit set), possibly with a key left out
Requests ==
    { Obj(Drop(order, omit),
          [airTemperature     |-> Num(298),
           processTemperature |-> Num(pt),
           rotationalSpeed    |-> Num(1500),
           torque             |-> tq,
           toolWear           |-> tw,
           type               |-> Str(ty)]) :
        order \in {RequiredKeys, Reverse(RequiredKeys)},
        omit  \in {"", "torque", "type"},
        pt    \in {308, 320},
        tq    \in {Num(40), None},
        tw    \in {Num(0), Num(210), None},
        ty    \in {"L", "M", "H", "Z"} }

Argvs ==
    { [kind |-> "none", obj |-> <<>>],         \* len(sys.argv) < 2
      [kind |-> "garbage", obj |-> <<>>],      \* json.loads raises
      [kind |-> "scalar", obj |-> <<>>] }      \* valid JSON, not an object
    \cup { [kind |-> "object", obj |-> o] : o \in Requests }

TrainingKeys ==
    <<"Air_temperature_K", "Process_temperature_K", "Rotational_speed_rpm",
      "Torque_Nm", "Tool_wear_min", "Type">>

\* Records an importing caller passes to predict_failure (test_python.py)
CallRecords ==
    { Obj(order,
          [Air_temperature_K     |-> Num(298),
           Process_temperature_K |-> Num(308),
           Rotational_speed_rpm  |-> Num(1500),
           Torque_Nm             |-> Num(40),
           Tool_wear_min         |-> Num(tw),
           Type                  |-> Str(ty)]) :
        order \in {TrainingKeys, Reverse(TrainingKeys)},
        tw    \in {0, 210},
        ty    \in {"H", "L", "Z"} }

\* ------------------------------------------------------------------------
\* The Predictor process
\* ------------------------------------------------------------------------
\* Module level of predict.py: load the model and the two encoders.  Nothing
\* catches a failure here: the interpreter writes the traceback and exits 1.
LoadArtifacts ==
    /\ pc = "start"
    /\ LET fm == files[ModelPath]
           ft == files[TypeEncPath]
           fl == files[TargetEncPath]
           okm == fm.status = "ok"
           okt == okm /\ ft.status = "ok"
           okl == okt /\ fl.status = "ok"
       IN  /\ model'      = IF okm THEN fm.content ELSE model
           /\ type_enc'   = IF okt THEN ft.content ELSE type_enc
           /\ target_enc' = IF okl THEN fl.content ELSE target_enc
           /\ pc'         = IF okl THEN "loaded" ELSE "crashed"
           /\ stderr'     = IF okl THEN stderr ELSE Append(stderr, "Traceback")
           /\ exitcode'   = IF okl THEN exitcode ELSE 1
    /\ UNCHANGED <<exportVars, fitVars, files, mode, argv, stdout, calls, last, now, trainVars, dataVars>>

\* if __name__ == "__main__": the whole block, then the process ends
Main ==
    /\ pc = "loaded"
    /\ mode = "cli"
    /\ \E r \in {main(argv, model, type_enc, target_enc, now)} :
           /\ stdout'   = stdout \o r.out
           /\ exitcode' = r.code
           /\ last'     = r.call
           /\ type_enc' = r.call.classes
    /\ pc'  = "exited"
    /\ now' = now + 1
    /\ UNCHANGED <<exportVars, fitVars, files, mode, argv, model, target_enc, stderr, calls,
                   trainVars, dataVars>>

\* An importing caller calls predict_failure(record) and keeps what it got
Call ==
    /\ pc = "loaded"
    /\ mode = "import"
    /\ Len(calls) < MaxCalls
    /\ \E rec \in CallRecords :
         \E c \in {predict_failure(model, type_enc, target_enc, rec, now)} :
             /\ calls'    = Append(calls, [input  |-> rec,
                                            raised |-> c.raised,
                                            err    |-> c.err,
                                            result |-> c.result])
             /\ last'     = c
             /\ type_enc' = c.classes
    /\ now' = now + 1
    /\ UNCHANGED <<exportVars, fitVars, files, pc, mode, argv, model, target_enc, stdout, stderr,
                   exitcode, trainVars, dataVars>>

\* Disks the Predictor can find: an artifact set a Trainer wrote, possibly
\* with a label encoder of another run, possibly with one file missing or
\* unreadable
PredictorDisks ==
    { [p \in Paths |->
         IF p = bad[1] THEN [status |-> bad[2], run |-> 0, content |-> <<>>]
         ELSE IF p = ModelPath     THEN File(1, m)
         ELSE IF p = TypeEncPath   THEN File(1, TypeClasses)
         ELSE IF p = TargetEncPath THEN File(1, lenc)
         ELSE File(1, model_info(train_features, lenc))] :
        m    \in Models,
        lenc \in {Classes6, Classes5},
        bad  \in {<<"", "ok">>}
                 \cup ({ModelPath, TypeEncPath, TargetEncPath}
                       \X {"absent", "corrupt"}) }

TrainIdle ==
    /\ tpc = "idle" /\ run = 0 /\ features = <<>> /\ trials = <<>>
    /\ best_value = -1
    /\ script = [type_enc |-> <<>>, target_enc |-> <<>>, model |-> <<>>]
DataIdle == df = <<>> /\ df0 = <<>> /\ dpc = "idle" /\ todo = <<>>
ExportIdle ==
    /\ exporter = "none" /\ xpc = "idle" /\ xglobals = <<>>
    /\ xfiles = <<>> /\ xlog = <<>> /\ xexit = -1
FitIdle == fpc = "idle" /\ fit_y = <<>> /\ fit_classes = <<>> /\ fit_codes = <<>>

InitPredictor ==
    /\ files \in PredictorDisks
    /\ pc = "start"
    /\ mode \in {"cli", "import"}
    /\ argv \in (IF mode = "cli" THEN Argvs ELSE {[kind |-> "none", obj |-> <<>>]})
    /\ model = <<>> /\ type_enc = <<>> /\ target_enc = <<>>
    /\ stdout = <<>> /\ stderr = <<>> /\ exitcode = -1
    /\ calls = <<>> /\ last = NoCall /\ now = 0
    /\ TrainIdle /\ DataIdle /\ ExportIdle /\ FitIdle

NextPredictor == LoadArtifacts \/ Main \/ Call

SpecPredictor == InitPredictor /\ [][NextPredictor]_vars

\* ------------------------------------------------------------------------
\* Claims about the Predictor (checked under SpecPredictor)
\* ------------------------------------------------------------------------
SuccessKeys == {"failureType", "confidence", "timestamp"}
ErrorKeys   == {"error", "timestamp"}

\* C1: every command-line run whose __main__ block ran (no argument, invalid
\* JSON, a missing key, a failing or a succeeding prediction) has printed
\* exactly one JSON object when it ends; a succeeding prediction gives the
\* keys failureType, confidence, timestamp and exit code 0, anything else
\* gives the keys error, timestamp and exit code 1.
C1_OneObjectAndExitCode ==
    (mode = "cli" /\ pc = "exited") =>
        /\ Len(stdout) = 1
        /\ stderr = <<>>
        /\ exitcode \in {0, 1}
        /\ (exitcode = 0) = (~last.raised)
        /\ (exitcode = 0) => DOMAIN stdout[1] = SuccessKeys
        /\ (exitcode = 1) => DOMAIN stdout[1] = ErrorKeys

C1_Witness ==
    /\ mode = "cli" /\ pc = "exited" /\ argv.kind = "object"
    /\ exitcode = 1 /\ last.X # <<>>
    /\ Len(stdout) = 1 /\ DOMAIN stdout[1] = ErrorKeys

\* C2: in every prediction that predict_failure returned, the predicted class
\* is an arg-max position of the model's probability vector for the record,
\* confidence is the maximum of that vector and the probability at the
\* predicted class, and failureType is the label encoder's class at that
\* index with each underscore turned into a space and nothing else changed.
C2_ArgmaxConfidenceLabel ==
    (pc \in {"loaded", "exited"} /\ ~last.raised) =>
        LET row   == last.probabilities[1]
            k     == last.prediction
            label == target_enc[k + 1]
            ft    == last.result.failureType
        IN  /\ last.probabilities = predict_proba(model, last.X).p
            /\ k \in 0..(Len(row) - 1)
            /\ \A j \in 1..Len(row) : row[j] <= row[k + 1]
            /\ last.result.confidence = row[k + 1]
            /\ Len(ft) = Len(label)
            /\ \A i \in 1..Len(ft) :
                 /\ ft[i] # "_"
                 /\ ft[i] = (IF label[i] = "_" THEN " " ELSE label[i])

C2_Witness ==
    /\ pc = "exited" /\ ~last.raised
    /\ last.prediction = 5
    /\ last.probabilities[1][1] < last.result.confidence
    /\ target_enc[6] = Tool_Wear_Failure
    /\ stdout[1].failureType =
         <<"T","o","o","l"," ","W","e","a","r"," ","F","a","i","l","u","r","e">>

C3_FixedOrder ==
    <<"Type_enc", "Air_temperature_K", "Process_temperature_K",
      "Rotational_speed_rpm", "Torque_Nm", "Tool_wear_min", "Temp_Diff",
      "Stress_Index", "Torque_Speed_Ratio", "Torque_roll_mean5",
      "Torque_roll_std5", "Wear_diff">>

\* C3: whenever engineer_features returned, whatever the order of the keys of
\* its input, its columns are the 12 names of the fixed order, and that
\* sequence is the Trainer's feature list and the list in the metadata file.
C3_FeatureOrder ==
    (last.X # <<>>) =>
        /\ Len(last.X) = 12
        /\ Cols(last.X) = C3_FixedOrder
        /\ Cols(last.X) = train_features
        /\ Cols(last.X) = files[InfoPath].content.features

C3_Witness ==
    /\ mode = "import" /\ Len(calls) = 2
    /\ calls[1].input[1][1] = "Air_temperature_K"
    /\ calls[2].input[1][1] = "Type"
    /\ ~calls[2].raised
    /\ Cols(last.X) = C3_FixedOrder

UnseenType(d, key) ==
    HasCol(d, key) /\ Get(d, key).s \notin Range(files[TypeEncPath].content)

\* C4: a record whose Type is not in the Type Encoder's fit set makes feature
\* engineering fail (no feature vector, so no code, is produced) and
\* predict_failure raise; the command-line run prints one object with error
\* and timestamp and exits with code 1.
C4_UnseenTypeFails ==
    /\ (/\ mode = "cli" /\ pc = "exited" /\ argv.kind = "object"
        /\ \A i \in 1..Len(RequiredKeys) : HasCol(argv.obj, RequiredKeys[i])
        /\ UnseenType(argv.obj, "type"))
       => /\ last.raised /\ last.X = <<>> /\ last.result = NoResult
          /\ Len(stdout) = 1 /\ DOMAIN stdout[1] = ErrorKeys
          /\ exitcode = 1
    /\ \A i \in 1..Len(calls) :
         UnseenType(calls[i].input, "Type")
         => calls[i].raised /\ calls[i].result = NoResult

C4_Witness ==
    /\ mode = "cli" /\ pc = "exited" /\ argv.kind = "object"
    /\ \A i \in 1..Len(RequiredKeys) : HasCol(argv.obj, RequiredKeys[i])
    /\ Get(argv.obj, "type") = Str("Z")
    /\ Get(argv.obj, "torque") = Num(40) /\ Get(argv.obj, "toolWear") = Num(0)
    /\ exitcode = 1
    /\ stdout[1].error =
         <<"Prediction error", "ValueError: y contains previously unseen labels">>

ArtifactUnusable ==
    \E p \in {ModelPath, TypeEncPath, TargetEncPath} : files[p].status # "ok"

\* C5: when an artifact the Predictor needs is absent or unreadable, the run
\* ends with the single structured error object on standard output, no raw
\* stack trace, and a failing exit status.
C5_ArtifactErrorIsStructured ==
    (ArtifactUnusable /\ pc \in {"crashed", "exited"}) =>
        /\ Len(stdout) = 1 /\ DOMAIN stdout[1] = ErrorKeys
        /\ stderr = <<>>
        /\ exitcode # 0

SameRecord(a, b) == Range(a) = Range(b)

\* C7: with the artifact set as loaded, two predict_failure calls with the
\* same record agree on whether they fail, on failureType and on confidence,
\* whatever calls were made in between; and no step of a loaded Predictor
\* changes the model, the Type Encoder or the Label Encoder.
C7_Deterministic ==
    /\ [](\A i, j \in 1..Len(calls) :
            SameRecord(calls[i].input, calls[j].input) =>
                /\ calls[i].raised = calls[j].raised
                /\ calls[i].result.failureType = calls[j].result.failureType
                /\ calls[i].result.confidence = calls[j].result.confidence)
    /\ [][pc = "loaded" =>
            /\ model' = model
            /\ type_enc' = type_enc
            /\ target_enc' = target_enc]_vars

C7_Witness ==
    /\ Len(calls) = 3
    /\ calls[1].input = calls[3].input
    /\ ~calls[1].raised /\ calls[2].raised /\ ~calls[3].raised
    /\ calls[1].result.timestamp # calls[3].result.timestamp
    /\ calls[1].result.failureType = calls[3].result.failureType

\* ------------------------------------------------------------------------
\* The Trainer process (model_train.py), one statement group per action.
\* Sections 2 and 3 (the data frame) are modelled in detail further down;
\* here a run only keeps which classes its data frame holds.
\* ------------------------------------------------------------------------
n_trials == 15

\* Validation accuracies (per cent) a trial can return
Accuracies == {90, 95}

\* A new run of the script: sections 2 and 3 build the labelled data frame
StartRun ==
    /\ tpc \in {"idle", "done", "aborted"}
    /\ run < MaxRuns
    /\ run' = run + 1
    /\ \E classes \in {Classes6, Classes5} :
         script' = [type_enc |-> TypeClasses, target_enc |-> classes, model |-> <<>>]
    /\ features' = <<>>
    /\ trials' = <<>>
    /\ best_value' = -1
    /\ tpc' = "encode"
    /\ UNCHANGED <<exportVars, fitVars, files, predVars, dataVars>>

\* Fit both encoders and pickle them to their paths
SaveEncoders ==
    /\ tpc = "encode"
    /\ files' = [files EXCEPT ![TypeEncPath]   = File(run, script.type_enc),
                              ![TargetEncPath] = File(run, script.target_enc)]
    /\ tpc' = "features"
    /\ UNCHANGED <<exportVars, fitVars, run, script, features, trials, best_value, predVars, dataVars>>

\* Sections 4 to 6: derived columns, the feature list, the split
PrepareFeatures ==
    /\ tpc = "features"
    /\ features' = train_features
    /\ tpc' = "search"
    /\ UNCHANGED <<exportVars, fitVars, files, run, script, trials, best_value, predVars, dataVars>>

\* One trial of study.optimize(objective, n_trials=15) that returns its
\* accuracy
TrialCompletes ==
    /\ tpc = "search"
    /\ Len(trials) < n_trials
    /\ \E a \in Accuracies :
         best_value' = IF a > best_value THEN a ELSE best_value
    /\ trials' = Append(trials, "COMPLETE")
    /\ UNCHANGED <<exportVars, fitVars, files, tpc, run, script, features, predVars, dataVars>>

\* One trial in which xgb.train raises.  objective has no try/except and
\* optimize is called with the default catch=(): the study records the trial
\* as FAIL and raises the exception again, which ends the script.
TrialRaises ==
    /\ tpc = "search"
    /\ Len(trials) < n_trials
    /\ trials' = Append(trials, "FAIL")
    /\ tpc' = "aborted"
    /\ UNCHANGED <<exportVars, fitVars, files, run, script, features, best_value, predVars, dataVars>>

\* study.optimize returns after n_trials; best_params is read
SearchEnds ==
    /\ tpc = "search"
    /\ Len(trials) = n_trials
    /\ tpc' = "fit"
    /\ UNCHANGED <<exportVars, fitVars, files, run, script, features, trials, best_value, predVars, dataVars>>

\* Section 9 and 10: the final xgb.train and the report
FinalFit ==
    /\ tpc = "fit"
    /\ \E m \in (IF Len(script.target_enc) = 6 THEN Models6 ELSE Models5) :
         script' = [script EXCEPT !.model = m]
    /\ tpc' = "save_model"
    /\ UNCHANGED <<exportVars, fitVars, files, run, features, trials, best_value, predVars, dataVars>>

\* The final xgb.train raises: the script ends with nothing more written
FinalFitRaises ==
    /\ tpc = "fit"
    /\ tpc' = "aborted"
    /\ UNCHANGED <<exportVars, fitVars, files, run, script, features, trials, best_value, predVars, dataVars>>

\* model.save_model("xgboost_multiclass_model.json")
SaveModel ==
    /\ tpc = "save_model"
    /\ files' = [files EXCEPT ![ModelPath] = File(run, script.model)]
    /\ tpc' = "save_info"
    /\ UNCHANGED <<exportVars, fitVars, run, script, features, trials, best_value, predVars, dataVars>>

\* json.dump(model_info, f)
SaveInfo ==
    /\ tpc = "save_info"
    /\ files' = [files EXCEPT
                   ![InfoPath] = File(run, model_info(features, script.target_enc))]
    /\ tpc' = "done"
    /\ UNCHANGED <<exportVars, fitVars, run, script, features, trials, best_value, predVars, dataVars>>

PredictorIdle ==
    /\ pc = "start" /\ mode = "cli" /\ argv = [kind |-> "none", obj |-> <<>>]
    /\ model = <<>> /\ type_enc = <<>> /\ target_enc = <<>>
    /\ stdout = <<>> /\ stderr = <<>> /\ exitcode = -1
    /\ calls = <<>> /\ last = NoCall /\ now = 0

InitTrainer ==
    /\ files = [p \in Paths |-> Absent]
    /\ TrainIdle /\ PredictorIdle /\ DataIdle /\ ExportIdle /\ FitIdle

NextTrainer ==
    \/ StartRun \/ SaveEncoders \/ PrepareFeatures
    \/ TrialCompletes \/ TrialRaises \/ SearchEnds
    \/ FinalFit \/ FinalFitRaises \/ SaveModel \/ SaveInfo

SpecTrainer == InitTrainer /\ [][NextTrainer]_vars

\* ------------------------------------------------------------------------
\* Claims about the Trainer (checked under SpecTrainer)
\* ------------------------------------------------------------------------
\* C6: whenever no training run is in progress, the artifacts found at the
\* four paths all come from the same training run.
C6_ArtifactSetFromOneRun ==
    (tpc \in {"idle", "done", "aborted"}) =>
        \A p, q \in Paths :
            (files[p].status = "ok" /\ files[q].status = "ok")
            => files[p].run = files[q].run

\* C10: a trial that fails to train is recorded as failing and the search
\* goes on: a failed trial never ends the training run.
C10_TrialFailureContained ==
    (\E i \in 1..Len(trials) : trials[i] = "FAIL") => tpc # "aborted"

\* ------------------------------------------------------------------------
\* The Trainer's data frame: section 3 of model_train.py
\* ------------------------------------------------------------------------
min_samples_per_class == 50

Row(udi, wear, torque, speed, process, label) ==
    [UDI |-> udi, Type |-> "L", Air_temperature_K |-> 300,
     Process_temperature_K |-> process, Rotational_speed_rpm |-> speed,
     Torque_Nm |-> torque, Tool_wear_min |-> wear, Failure_Type |-> label]

\* The rule predicates
wear_failure(r)       == r.Tool_wear_min > 200
power_failure(r)      == r.Torque_Nm > 80 /\ r.Rotational_speed_rpm > 2500
overstrain_failure(r) == r.Torque_Nm > 70 /\ r.Tool_wear_min > 150
heat_failure(r)       == (r.Process_temperature_K - r.Air_temperature_K) > 15

\* Mutant of power_mask: the rule without its "& ~wear_failure".
power_mask_unguarded(r) == power_failure(r)

\* The masks of the four df.loc assignments
wear_mask(r)       == wear_failure(r)
power_mask(r)      == power_failure(r) /\ ~wear_failure(r)
overstrain_mask(r) == overstrain_failure(r) /\ ~wear_failure(r) /\ ~power_failure(r)
heat_mask(r)       == /\ heat_failure(r) /\ ~wear_failure(r)
                      /\ ~power_failure(r) /\ ~overstrain_failure(r)

\* df.loc[mask, 'Failure_Type'] = label, on one row
Loc(mask, label, current) == IF mask THEN label ELSE current

\* The column after the default and the four assignments, in script order
assign_failure_type(r) ==
    LET l0 == No_Failure
        l1 == Loc(wear_mask(r), Tool_Wear_Failure, l0)
        l2 == Loc(power_mask(r), Power_Failure, l1)
        l3 == Loc(overstrain_mask(r), Overstrain_Failure, l2)
        l4 == Loc(heat_mask(r), Heat_Dissipation_Failure, l3)
    IN  l4

\* Positions of the rows of one class: df[df['Failure_Type'] == c].index
class_indices(d, c) == {i \in 1..Len(d) : d[i].Failure_Type = c}

\* df['Failure_Type'].unique(): the classes in order of first appearance
unique(d) ==
    LET First(i) == \A j \in 1..(i-1) : d[j].Failure_Type # d[i].Failure_Type
        F[i \in 0..Len(d)] ==
            IF i = 0 THEN <<>>
            ELSE IF First(i) THEN Append(F[i-1], d[i].Failure_Type) ELSE F[i-1]
    IN  F[Len(d)]

\* np.random.choice(S, size=k, replace=False): the sets of k members of S
RECURSIVE choice_without_replacement(_, _)
choice_without_replacement(S, k) ==
    IF k = 0 THEN {{}}
    ELSE UNION { { {x} \cup T :
                     T \in choice_without_replacement({y \in S : y > x}, k - 1) } :
                 x \in S }

\* int(len(no_failure_indices) * 0.02)
random_failures_count(n) == (n * 2) \div 100

\* Lines 53 to 65: the default label and the four rule assignments
AssignLabels ==
    /\ dpc = "generated"
    /\ df' = [i \in 1..Len(df) |->
                [df[i] EXCEPT !.Failure_Type = assign_failure_type(df[i])]]
    /\ dpc' = "labelled"
    /\ UNCHANGED <<exportVars, fitVars, df0, todo, files, predVars, trainVars>>

\* Lines 69 to 74: a random 2% of the No_Failure rows become Random_Failures
RandomRelabel ==
    /\ dpc = "labelled"
    /\ LET no_failure_indices == class_indices(df, No_Failure)
           k == random_failures_count(Cardinality(no_failure_indices))
       IN  \E random_failures \in choice_without_replacement(no_failure_indices, k) :
             /\ df' = [i \in 1..Len(df) |->
                         IF i \in random_failures
                         THEN [df[i] EXCEPT !.Failure_Type = Random_Failures]
                         ELSE df[i]]
    /\ dpc' = "relabelled"
    /\ UNCHANGED <<exportVars, fitVars, df0, todo, files, predVars, trainVars>>

\* Mutant of pd_concat: the concatenation is computed and not kept.
pd_concat_dropped(d, rows) == d

\* df = pd.concat([df, rows], ignore_index=True)
pd_concat(d, rows) == d \o rows

\* indices = df[df['Failure_Type'] == failure_type].index
balance_indices(d, c) == class_indices(d, c)

\* Line 79: the loop's iterable is evaluated once, before the first pass
BalanceBegin ==
    /\ dpc = "relabelled"
    /\ todo' = unique(df)
    /\ df0' = df
    /\ dpc' = "balancing"
    /\ UNCHANGED <<exportVars, fitVars, df, files, predVars, trainVars>>

\* One pass of the loop body for the next class
BalanceClass ==
    /\ dpc = "balancing"
    /\ todo # <<>>
    /\ LET failure_type == Head(todo)
           count == Cardinality(class_indices(df, failure_type))
           indices == balance_indices(df, failure_type)
           samples_needed == min_samples_per_class - count
       IN  IF count < min_samples_per_class
           THEN \E additional_indices \in [1..samples_needed -> indices] :
                  df' = pd_concat(df, [k \in 1..samples_needed |->
                                            df[additional_indices[k]]])
           ELSE df' = df
    /\ todo' = Tail(todo)
    /\ UNCHANGED <<exportVars, fitVars, df0, dpc, files, predVars, trainVars>>

BalanceEnd ==
    /\ dpc = "balancing"
    /\ todo = <<>>
    /\ dpc' = "balanced"
    /\ UNCHANGED <<exportVars, fitVars, df, df0, todo, files, predVars, trainVars>>

\* An ordinary row: no rule holds
Filler(i) == Row(i, 10, 40, 1500, 310, <<>>)

\* Generated frames: one row with readings on either side of every rule's
\* threshold, followed by ordinary rows
InitData ==
    /\ \E wear \in {150, 151, 200, 201}, torque \in {70, 71, 80, 81},
          speed \in {2500, 2501}, process \in {315, 316}, n \in MinFill..MaxFill :
         df = <<Row(1, wear, torque, speed, process, <<>>)>>
              \o [i \in 1..n |-> Filler(i + 1)]
    /\ df0 = <<>>
    /\ dpc = "generated"
    /\ todo = <<>>
    /\ files = [p \in Paths |-> Absent]
    /\ TrainIdle /\ PredictorIdle /\ ExportIdle /\ FitIdle

NextData == AssignLabels \/ RandomRelabel

SpecData == InitData /\ [][NextData]_vars

\* n rows of one class, numbered from `from`
Group(from, n, label) == [i \in 1..n |-> Row(from + i - 1, 10, 40, 1500, 310, label)]

\* Labelled frames the balancing loop can find: No_Failure rows around the
\* minimum, a single Random_Failures row, and Tool_Wear_Failure rows (none,
\* or as many as the minimum), in either order of first appearance
InitBalance ==
    /\ \E nf \in (min_samples_per_class - MaxDeficit)..(min_samples_per_class + 1),
          tw \in {0, min_samples_per_class},
          rfFirst \in BOOLEAN :
         LET a == Group(1, nf, No_Failure)
             b == [i \in 1..tw |-> Row(nf + i, 210, 40, 1500, 310, Tool_Wear_Failure)]
             c == Group(nf + tw + 1, 1, Random_Failures)
         IN  df = IF rfFirst THEN c \o a \o b ELSE a \o b \o c
    /\ df0 = <<>>
    /\ dpc = "relabelled"
    /\ todo = <<>>
    /\ files = [p \in Paths |-> Absent]
    /\ TrainIdle /\ PredictorIdle /\ ExportIdle /\ FitIdle

NextBalance == BalanceBegin \/ BalanceClass \/ BalanceEnd

SpecBalance == InitBalance /\ [][NextBalance]_vars

\* ------------------------------------------------------------------------
\* Claims about the data section
\* ------------------------------------------------------------------------
C8_Precedence(r) ==
    IF r.Tool_wear_min > 200 THEN Tool_Wear_Failure
    ELSE IF r.Torque_Nm > 80 /\ r.Rotational_speed_rpm > 2500 THEN Power_Failure
    ELSE IF r.Torque_Nm > 70 /\ r.Tool_wear_min > 150 THEN Overstrain_Failure
    ELSE IF r.Process_temperature_K - r.Air_temperature_K > 15
         THEN Heat_Dissipation_Failure
    ELSE No_Failure

\* C8 (SpecData): after the rule assignments every row carries the one class
\* the precedence wear > power > overstrain > heat > none gives it, and the
\* random relabelling changes only rows labelled No_Failure, to
\* Random_Failures.
C8_LabelPrecedence ==
    /\ [](dpc = "labelled" =>
            \A i \in 1..Len(df) : df[i].Failure_Type = C8_Precedence(df[i]))
    /\ [][dpc = "labelled" =>
            /\ Len(df') = Len(df)
            /\ \A i \in 1..Len(df) :
                 df'[i] # df[i] =>
                    /\ df[i].Failure_Type = No_Failure
                    /\ df'[i] = [df[i] EXCEPT !.Failure_Type = Random_Failures]]_vars

C8_Witness ==
    /\ dpc = "relabelled"
    /\ df[1].Tool_wear_min = 201 /\ df[1].Torque_Nm = 81
    /\ df[1].Rotational_speed_rpm = 2501 /\ df[1].Process_temperature_K = 316
    /\ df[1].Failure_Type = Tool_Wear_Failure
    /\ \E i \in 1..Len(df) : df[i].Failure_Type = Random_Failures

C9_Count(d, c) == Cardinality({i \in 1..Len(d) : d[i].Failure_Type = c})

\* C9 (SpecBalance): after the balancing loop every class of the data frame
\* has at least min_samples_per_class rows: a class that had fewer has exactly
\* that many, a class that had as many or more has the count it had; the rows
\* the loop found are unchanged and every added row is a copy of one of them.
C9_BalancedClasses ==
    (dpc = "balanced") =>
        /\ Len(df) >= Len(df0)
        /\ SubSeq(df, 1, Len(df0)) = df0
        /\ \A c \in {df[i].Failure_Type : i \in 1..Len(df)} :
             /\ C9_Count(df0, c) >= 1
             /\ C9_Count(df, c) >= min_samples_per_class
             /\ C9_Count(df, c) =
                  IF C9_Count(df0, c) < min_samples_per_class
                  THEN min_samples_per_class
                  ELSE C9_Count(df0, c)
        /\ \A i \in (Len(df0) + 1)..Len(df) :
             /\ \E j \in 1..Len(df0) : df[i] = df0[j]
             /\ C9_Count(df0, df[i].Failure_Type) < min_samples_per_class

C9_Witness ==
    /\ dpc = "balanced"
    /\ C9_Count(df0, No_Failure) = min_samples_per_class - 1
    /\ C9_Count(df, No_Failure) = min_samples_per_class
    /\ C9_Count(df0, Tool_Wear_Failure) = min_samples_per_class
    /\ C9_Count(df, Tool_Wear_Failure) = min_samples_per_class
    /\ C9_Count(df0, Random_Failures) = 1
    /\ \E i, j \in (Len(df0) + 1)..Len(df) :
         i # j /\ df[i] = df[j] /\ df[i].Failure_Type = Random_Failures

\* ------------------------------------------------------------------------
\* The exporters: convert_to_onnx.py and convert_to_tensorflow.py
\* ------------------------------------------------------------------------
MetadataPath == "model_metadata.json"
OnnxPath     == "xgboost_model.onnx"
BinaryPath   == "xgboost_model.bin"
BoosterPath  == "xgboost_booster.json"
ParamsPath   == "tf_model_params.json"
TestDataPath == "test_data.json"
ExportPaths == {MetadataPath, OnnxPath, BinaryPath, BoosterPath, ParamsPath,
                TestDataPath}

\* The fixed sample row both scripts build (Torque_Speed_Ratio 0.0267 in 1/1000)
sample_input ==
    <<0, 298, 308, 1500, 40, 0, 10, 60000, 27, 0, 0, 0>>

\* model.predict_proba on a bare array: only the number of columns is
\* checked; the row of class probabilities, here in millionths
predict_proba_array(m, x) ==
    IF Len(x) # Len(m.feature_names)
    THEN [raised |-> TRUE, err |-> "ValueError: Feature shape mismatch", p |-> <<>>]
    ELSE Bind(IF x[m.feature] < m.threshold THEN m.left ELSE m.right,
              LAMBDA row : [raised |-> FALSE, err |-> "",
                            p |-> [i \in 1..Len(row) |-> row[i] * 1000]])

\* np.allclose(a, b, rtol=1e-4, atol=1e-4) on two rows in millionths:
\* |a - b| <= atol + rtol * |b| for every entry
Abs(x) == IF x < 0 THEN -x ELSE x
np_allclose(a, b) ==
    /\ Len(a) = Len(b)
    /\ \A i \in 1..Len(a) : 10000 * Abs(a[i] - b[i]) <= 1000000 + Abs(b[i])

\* What the ONNX runtime can return for the sample row: the original row,
\* moved by d millionths from the first class to the second
OnnxDrifts == {0, 50, 150, 5000}
Drifted(row, d) ==
    [i \in 1..Len(row) |-> IF i = 1 THEN row[i] - d
                           ELSE IF i = 2 THEN row[i] + d ELSE row[i]]

NoGlobals ==
    [model |-> <<>>, type_enc |-> <<>>, target_enc |-> <<>>, model_info |-> <<>>,
     original_result |-> <<>>, onnx_result |-> <<>>, allclose |-> "not evaluated"]

\* Disks an exporter can find: what the Predictor can find, and also a
\* missing or unreadable model_info.json
ExporterDisks ==
    PredictorDisks \cup
    { [d EXCEPT ![InfoPath] = [status |-> st, run |-> 0, content |-> <<>>]] :
        d  \in {e \in PredictorDisks : \A p \in Paths : e[p].status = "ok"},
        st \in {"absent", "corrupt"} }

\* Module level of either script: load the model, the encoders and
\* model_info.json.  Nothing catches a failure here.
ExportLoad ==
    /\ xpc = "start"
    /\ LET ok == \A p \in Paths : files[p].status = "ok"
       IN  /\ xglobals' = IF ok
                          THEN [xglobals EXCEPT
                                  !.model      = files[ModelPath].content,
                                  !.type_enc   = files[TypeEncPath].content,
                                  !.target_enc = files[TargetEncPath].content,
                                  !.model_info = files[InfoPath].content]
                          ELSE xglobals
           /\ xpc'   = IF ok THEN "loaded" ELSE "crashed"
           /\ xexit' = IF ok THEN xexit ELSE 1
           /\ xlog'  = IF ok THEN xlog \o <<"Model features", "Model classes">>
                       ELSE xlog
    /\ UNCHANGED <<exporter, xfiles, files, predVars, trainVars, dataVars, fitVars>>

\* original_result = model.predict_proba(sample_input)
ExportOriginal ==
    /\ xpc = "loaded"
    /\ \E r \in {predict_proba_array(xglobals.model, sample_input)} :
         IF r.raised
         THEN /\ xpc' = "crashed" /\ xexit' = 1
              /\ UNCHANGED <<xglobals, xlog>>
         ELSE /\ xglobals' = [xglobals EXCEPT !.original_result = r.p]
              /\ xlog' = Append(xlog, "Original XGBoost model result")
              /\ xpc' = "tested"
              /\ UNCHANGED xexit
    /\ UNCHANGED <<exporter, xfiles, files, predVars, trainVars, dataVars, fitVars>>

\* convert_to_onnx.py: model_metadata.json
OnnxMetadata ==
    /\ exporter = "onnx" /\ xpc = "tested"
    /\ xfiles' = [xfiles EXCEPT ![MetadataPath] = File(1, xglobals.model_info)]
    /\ xlog' = Append(xlog, "Model metadata saved")
    /\ xpc' = "metadata"
    /\ UNCHANGED <<exporter, xglobals, xexit, files, predVars, trainVars,
                   dataVars, fitVars>>

\* try: convert_xgboost and save_model.  The conversion is the library's: it
\* returns a graph, which is saved, or it raises.
OnnxConvert ==
    /\ exporter = "onnx" /\ xpc = "metadata"
    /\ \/ /\ xfiles' = [xfiles EXCEPT ![OnnxPath] = File(1, xglobals.model)]
          /\ xlog' = Append(xlog, "ONNX model saved")
          /\ xpc' = "saved"
       \/ /\ xpc' = "except"
          /\ UNCHANGED <<xfiles, xlog>>
    /\ UNCHANGED <<exporter, xglobals, xexit, files, predVars, trainVars,
                   dataVars, fitVars>>

\* InferenceSession(onnx_path) and ort_session.run on the sample row: the
\* runtime's output, or an exception of the runtime
OnnxRun ==
    /\ exporter = "onnx" /\ xpc = "saved"
    /\ \/ \E d \in OnnxDrifts :
            /\ xglobals' = [xglobals EXCEPT
                              !.onnx_result = Drifted(xglobals.original_result, d)]
            /\ xlog' = Append(xlog, "ONNX model output")
            /\ xpc' = "ran"
       \/ /\ xpc' = "except"
          /\ UNCHANGED <<xglobals, xlog>>
    /\ UNCHANGED <<exporter, xfiles, xexit, files, predVars, trainVars,
                   dataVars, fitVars>>

\* The comparison and the closing prints; the script ends
OnnxCompare ==
    /\ exporter = "onnx" /\ xpc = "ran"
    /\ \E close \in {np_allclose(xglobals.original_result, xglobals.onnx_result)} :
         /\ xglobals' = [xglobals EXCEPT
                           !.allclose = IF close THEN "close" ELSE "differ"]
         /\ xlog' = xlog \o <<IF close THEN "SUCCESS" ELSE "WARNING",
                              "Conversion completed successfully!">>
    /\ xpc' = "done"
    /\ xexit' = 0
    /\ UNCHANGED <<exporter, xfiles, files, predVars, trainVars, dataVars, fitVars>>

\* except Exception: report, save the model as xgboost_model.bin; the script ends
OnnxFallback ==
    /\ exporter = "onnx" /\ xpc = "except"
    /\ xfiles' = [xfiles EXCEPT ![BinaryPath] = File(1, xglobals.model)]
    /\ xlog' = xlog \o <<"ERROR during conversion", "Binary model saved">>
    /\ xpc' = "done"
    /\ xexit' = 0
    /\ UNCHANGED <<exporter, xglobals, files, predVars, trainVars, dataVars, fitVars>>

\* convert_to_tensorflow.py: model_params and the raw booster
model_params(info, classes) ==
    [feature_names |-> info.features,
     class_names   |-> [i \in 1..Len(classes) |-> str_replace(classes[i], "_", " ")],
     num_classes   |-> info.num_classes]

BoosterSaveRaw ==
    /\ exporter = "booster" /\ xpc = "tested"
    /\ xfiles' = [xfiles EXCEPT ![BoosterPath] = File(1, xglobals.model)]
    /\ xlog' = Append(xlog, "XGBoost booster saved")
    /\ xpc' = "booster"
    /\ UNCHANGED <<exporter, xglobals, xexit, files, predVars, trainVars,
                   dataVars, fitVars>>

BoosterSaveParams ==
    /\ exporter = "booster" /\ xpc = "booster"
    /\ xfiles' = [xfiles EXCEPT ![ParamsPath] =
                    File(1, model_params(xglobals.model_info, xglobals.target_enc))]
    /\ xlog' = Append(xlog, "Model parameters saved")
    /\ xpc' = "params"
    /\ UNCHANGED <<exporter, xglobals, xexit, files, predVars, trainVars,
                   dataVars, fitVars>>

\* test_data.json and the last print; the script ends
BoosterSaveTestData ==
    /\ exporter = "booster" /\ xpc = "params"
    /\ xfiles' = [xfiles EXCEPT ![TestDataPath] =
                    File(1, [input  |-> <<sample_input>>,
                             output |-> <<xglobals.original_result>>])]
    /\ xlog' = xlog \o <<"Test data saved",
                         "Conversion preparation completed successfully!">>
    /\ xpc' = "done"
    /\ xexit' = 0
    /\ UNCHANGED <<exporter, xglobals, files, predVars, trainVars, dataVars, fitVars>>

InitExporter ==
    /\ files \in ExporterDisks
    /\ exporter \in {"onnx", "booster"}
    /\ xpc = "start"
    /\ xglobals = NoGlobals
    /\ xfiles = [p \in ExportPaths |-> Absent]
    /\ xlog = <<>>
    /\ xexit = -1
    /\ TrainIdle /\ PredictorIdle /\ DataIdle /\ FitIdle

NextExporter ==
    \/ ExportLoad \/ ExportOriginal
    \/ OnnxMetadata \/ OnnxConvert \/ OnnxRun \/ OnnxCompare \/ OnnxFallback
    \/ BoosterSaveRaw \/ BoosterSaveParams \/ BoosterSaveTestData

SpecExporter == InitExporter /\ [][NextExporter]_vars

\* ------------------------------------------------------------------------
\* Claims about the exporters (checked under SpecExporter)
\* ------------------------------------------------------------------------
\* C11 (SpecExporter): every exporter run that has produced a converted
\* artifact (xgboost_model.onnx or xgboost_booster.json) and has finished has
\* compared the converted artifact's output on the sample row with the
\* original model's output (np.allclose, rtol = atol = 1e-4); when the two
\* differ the run has printed the warning, and it ends with status 0.
C11_ExportersReverify ==
    /\ (xpc = "done" /\ (xfiles[OnnxPath].status = "ok"
                         \/ xfiles[BoosterPath].status = "ok"))
          => /\ xglobals.allclose # "not evaluated"
             /\ xexit = 0
    /\ (xpc # "idle" /\ xglobals.allclose = "differ")
          => /\ \E i \in 1..Len(xlog) : xlog[i] = "WARNING"
             /\ xexit = 0

\* ------------------------------------------------------------------------
\* The Trainer's encoders: LabelEncoder.fit_transform over a column of
\* strings (Type, Failure_Type).  A string is the sequence of its characters.
\* ------------------------------------------------------------------------
MaxRows == 4       \* most rows of a column the encoder is fit over

\* The characters of the Type and Failure_Type values in code-point order
\* (upper case, then "_", then lower case); ord(c) is c's rank in it
CodePoints ==
    <<"D", "F", "H", "L", "M", "N", "O", "P", "R", "T", "W", "_",
      "a", "d", "e", "h", "i", "l", "m", "n", "o", "p", "r", "s", "t", "u",
      "v", "w">>
ord(c) == CHOOSE i \in 1..Len(CodePoints) : CodePoints[i] = c

\* a < b for Python strings: the first differing character decides, and a
\* proper prefix is smaller
str_lt(a, b) ==
    \E k \in 1..(Len(b)) :
        /\ k <= Len(a) + 1
        /\ \A j \in 1..(k - 1) : a[j] = b[j]
        /\ (k = Len(a) + 1 \/ ord(a[k]) < ord(b[k]))

\* sorted(set(y)): the distinct values in increasing order
np_unique(y) ==
    Bind(Range(y), LAMBDA S :
        [i \in 1..Cardinality(S) |->
            CHOOSE v \in S : Cardinality({u \in S : str_lt(u, v)}) = i - 1])

\* LabelEncoder().fit_transform(y): classes_ and the code of every row
fit_transform(y) ==
    Bind(np_unique(y), LAMBDA classes :
        [classes |-> classes,
         codes   |-> [r \in 1..Len(y) |->
                        (CHOOSE k \in 1..Len(classes) : classes[k] = y[r]) - 1]])

\* Columns the encoders are fit over: Type values, or Failure_Type values
TypeValues  == {<<"L">>, <<"M">>, <<"H">>}
LabelValues == {No_Failure, Tool_Wear_Failure, Power_Failure,
                Heat_Dissipation_Failure}
Columns(V) == UNION { [1..n -> V] : n \in 1..MaxRows }

\* type_enc.fit_transform(df["Type"]) or target_enc.fit_transform(df["Failure_Type"])
Fit ==
    /\ fpc = "start"
    /\ \E r \in {fit_transform(fit_y)} :
         /\ fit_classes' = r.classes
         /\ fit_codes'   = r.codes
    /\ fpc' = "fitted"
    /\ UNCHANGED <<fit_y, files, predVars, trainVars, dataVars, exportVars>>

InitFit ==
    /\ fit_y \in Columns(TypeValues) \cup Columns(LabelValues)
    /\ fpc = "start"
    /\ fit_classes = <<>> /\ fit_codes = <<>>
    /\ files = [p \in Paths |-> Absent]
    /\ TrainIdle /\ PredictorIdle /\ DataIdle /\ ExportIdle

NextFit == Fit

SpecFit == InitFit /\ [][NextFit]_vars

\* ------------------------------------------------------------------------
\* Claims about the encoders (checked under SpecFit)
\* ------------------------------------------------------------------------
C12_FirstSeen(y, v) == CHOOSE i \in 1..Len(y) : y[i] = v /\ \A j \in 1..(i - 1) : y[j] # v

\* C12 (SpecFit): a fitted encoder maps the n distinct strings of its fit
\* column one-to-one onto the codes 0..n-1, and a string seen earlier in the
\* column for the first time has the smaller code.
C12_DenseFirstSeenCodes ==
    (fpc = "fitted") =>
        LET n == Cardinality(Range(fit_y))
        IN  /\ Len(fit_classes) = n
            /\ Range(fit_classes) = Range(fit_y)
            /\ \A r \in 1..Len(fit_y) :
                 /\ fit_codes[r] \in 0..(n - 1)
                 /\ fit_classes[fit_codes[r] + 1] = fit_y[r]
            /\ \A r, q \in 1..Len(fit_y) :
                 (C12_FirstSeen(fit_y, fit_y[r]) < C12_FirstSeen(fit_y, fit_y[q]))
                    => fit_codes[r] < fit_codes[q]

====
